---- MODULE Spec2Model ----
(***************************************************************************)
(* A model of src/app.py: the pomodoros table and the seven functions that *)
(* read and write it, the Streamlit script that renders the dashboard, and *)
(* the user interactions that rerun it.                                    *)
(*                                                                         *)
(* Text is modelled as a sequence of one-character strings, so that        *)
(* str(), int(), str.strip() and s[0] are computed and not assumed.        *)
(* Time is counted in whole days.                                          *)
(***************************************************************************)
EXTENDS Integers, Sequences, FiniteSets, TLC

VARIABLES
    table,          \* the rows of pomodoros, (id, description, timestamp), as stored
    seq,            \* last value handed out by the SERIAL sequence of pomodoros.id
    clock,          \* what datetime.now() returns
    open_conns,     \* connections opened by get_connection() and not yet closed
    query_params,   \* st.query_params: a mapping from a subset of {"page","updated"} to text
    view,           \* what the last run of the script left on the screen
    session,        \* a second session's run of lines 128-144, one store read per step
    hist            \* history: the last event, the rows added and removed, the ids issued

vars == <<table, seq, clock, open_conns, query_params, view, session, hist>>

\* ------------------------------------------------------------------ bounds

MaxAdds == 1
MaxDeletes == 1
MaxTicks == 1
MaxFaults == 1
MaxCalls == 4
MaxId == 3

\* --------------------------------------------------------------- constants

PAGE_SIZE == 100
TARGET_POMODOROS == 13000

\* The three windows of the stats row, in days.
Windows == <<7, 30, 365>>

\* The three calls of count_pomodoros_since, as places where a statement can fail.
WindowSites == <<"count_pomodoros_since(7)", "count_pomodoros_since(30)",
                 "count_pomodoros_since(365)">>

\* -------------------------------------------------------------------- text

Digits == <<"0", "1", "2", "3", "4", "5", "6", "7", "8", "9">>

IsDigit(c) == \E i \in 1..10 : Digits[i] = c

DigitVal(c) == (CHOOSE i \in 1..10 : Digits[i] = c) - 1

IsSpace(c) == c = " "

RECURSIVE DigitsToNat(_, _)
DigitsToNat(s, acc) ==
    IF s = <<>> THEN acc ELSE DigitsToNat(Tail(s), 10 * acc + DigitVal(Head(s)))

\* Python's int(text) on text over the digits, the signs and letters: an optional sign
\* followed by one or more digits gives [raised |-> FALSE, value |-> n]; anything else
\* raises ValueError.
PyInt(s) ==
    LET signed == s # <<>> /\ Head(s) \in {"-", "+"}
        body == IF signed THEN Tail(s) ELSE s
    IN IF body = <<>> \/ \E i \in 1..Len(body) : ~IsDigit(body[i])
       THEN [raised |-> TRUE, value |-> 0]
       ELSE [raised |-> FALSE,
             value |-> IF signed /\ Head(s) = "-" THEN 0 - DigitsToNat(body, 0)
                       ELSE DigitsToNat(body, 0)]

RECURSIVE NatToDigits(_)
NatToDigits(n) ==
    IF n < 10 THEN <<Digits[n + 1]>>
    ELSE Append(NatToDigits(n \div 10), Digits[(n % 10) + 1])

\* Python's str(n) of an int.
PyStr(n) == IF n < 0 THEN <<"-">> \o NatToDigits(0 - n) ELSE NatToDigits(n)

RECURSIVE LStrip(_)
LStrip(s) == IF s # <<>> /\ IsSpace(Head(s)) THEN LStrip(Tail(s)) ELSE s

RECURSIVE RStrip(_)
RStrip(s) ==
    IF s # <<>> /\ IsSpace(s[Len(s)]) THEN RStrip(SubSeq(s, 1, Len(s) - 1)) ELSE s

\* Python's str.strip().
PyStrip(s) == RStrip(LStrip(s))

\* ------------------------------------------------------------ record store

\* body(e), with e evaluated once.
With(e, body(_)) == CHOOSE y \in {body(x) : x \in {e}} : TRUE

NoFault == [site |-> "none", step |-> "none"]

\* The step of the call at `site` that `fault` makes raise: "execute", "commit" or "none".
FaultStep(fault, site) == IF fault.site = site THEN fault.step ELSE "none"

\* A store function raising: what it leaves behind.
Raised(db, conns) == [raised |-> TRUE, db |-> db, conns |-> conns, value |-> <<>>]

\* A store function returning `value`.
Returned(db, conns, value) == [raised |-> FALSE, db |-> db, conns |-> conns, value |-> value]

\* get_connection(): one more open connection.
get_connection(conns) == conns + 1

\* conn.close(): one fewer.
conn_close(conns) == conns - 1

\* CREATE TABLE IF NOT EXISTS: the table exists from the first run on, so the
\* statement changes no row.
init_db(db, conns, step) ==
    LET conn == get_connection(conns)
    IN IF step \in {"execute", "commit"} THEN Raised(db, conn)
       ELSE Returned(db, conn_close(conn), <<>>)

\* nextval of the SERIAL sequence: it is not rolled back with the transaction.
nextval(s) == s + 1

\* add_pomodoro numbering the row one past the greatest id of the table instead of
\* taking the next value of the sequence.
add_pomodoro_max_plus_one(db, conns, step, description, now) ==
    LET conn == get_connection(conns)
        id == IF db.table = <<>> THEN 1
              ELSE 1 + (CHOOSE m \in {db.table[k].id : k \in 1..Len(db.table)} :
                            \A k \in 1..Len(db.table) : db.table[k].id <= m)
        row == [id |-> id, description |-> description, timestamp |-> now]
    IN IF step = "execute" THEN Raised(db, conn)
       ELSE IF step = "commit" THEN Raised([db EXCEPT !.seq = id], conn)
       ELSE Returned([table |-> Append(db.table, row), seq |-> id], conn_close(conn), <<>>)

\* INSERT INTO pomodoros (description, timestamp) VALUES (%s, %s): the row gets the next
\* value of the sequence as its id and is placed after the rows the table holds.
add_pomodoro(db, conns, step, description, now) ==
    LET conn == get_connection(conns)
        id == nextval(db.seq)
        row == [id |-> id, description |-> description, timestamp |-> now]
    IN IF step = "execute" THEN Raised(db, conn)
       ELSE IF step = "commit" THEN Raised([db EXCEPT !.seq = id], conn)
       ELSE Returned([table |-> Append(db.table, row), seq |-> id], conn_close(conn), <<>>)

\* remove_pomodoro taking pomo_id for the position of the row instead of its id.
remove_pomodoro_by_position(db, conns, step, pomo_id) ==
    LET conn == get_connection(conns)
        kept == [db EXCEPT !.table =
                    IF pomo_id \in 1..Len(@)
                    THEN SubSeq(@, 1, pomo_id - 1) \o SubSeq(@, pomo_id + 1, Len(@))
                    ELSE @]
    IN IF step \in {"execute", "commit"} THEN Raised(db, conn)
       ELSE Returned(kept, conn_close(conn), <<>>)

\* DELETE FROM pomodoros WHERE id = pomo_id.
remove_pomodoro(db, conns, step, pomo_id) ==
    LET conn == get_connection(conns)
    IN IF step \in {"execute", "commit"} THEN Raised(db, conn)
       ELSE Returned([db EXCEPT !.table = SelectSeq(@, LAMBDA r : r.id # pomo_id)],
                     conn_close(conn), <<>>)

\* ORDER BY id ASC: the rows in ascending order of id.
OrderById(rows) == SortSeq(rows, LAMBDA a, b : a.id < b.id)

\* SELECT id, description, timestamp FROM pomodoros ORDER BY id ASC.
get_all_pomodoros(db, conns, step) ==
    LET conn == get_connection(conns)
    IN IF step = "execute" THEN Raised(db, conn)
       ELSE Returned(db, conn_close(conn), OrderById(db.table))

\* SELECT COUNT(*) FROM pomodoros.
get_total_pomodoros(db, conns, step) ==
    LET conn == get_connection(conns)
    IN IF step = "execute" THEN Raised(db, conn)
       ELSE Returned(db, conn_close(conn), Len(db.table))

\* SELECT description FROM pomodoros ORDER BY id DESC LIMIT 1, "" when there is no row.
get_last_description(db, conns, step) ==
    LET conn == get_connection(conns)
    IN IF step = "execute" THEN Raised(db, conn)
       ELSE Returned(db, conn_close(conn),
                IF db.table = <<>> THEN <<>>
                ELSE With(OrderById(db.table), LAMBDA rows : rows[Len(rows)].description))

\* count_pomodoros_since comparing the wrong way round: the rows up to the cutoff.
count_pomodoros_until(db, conns, step, days, now) ==
    LET cutoff == now - days
        conn == get_connection(conns)
    IN IF step = "execute" THEN Raised(db, conn)
       ELSE Returned(db, conn_close(conn),
                Len(SelectSeq(db.table, LAMBDA r : r.timestamp <= cutoff)))

\* count_pomodoros_since(days): the rows with timestamp >= now - days.
count_pomodoros_since(db, conns, step, days, now) ==
    LET cutoff == now - days
        conn == get_connection(conns)
    IN IF step = "execute" THEN Raised(db, conn)
       ELSE Returned(db, conn_close(conn),
                Len(SelectSeq(db.table, LAMBDA r : r.timestamp >= cutoff)))

\* ------------------------------------------------------------ the script

\* dict[key] = value on a copy of the mapping.
SetParam(qp, key, value) ==
    [k \in DOMAIN qp \cup {key} |-> IF k = key THEN value ELSE qp[k]]

\* str(datetime.now().timestamp()).
UpdatedMarker(now) == PyStr(now)

\* What a run shows before any element is drawn.
BlankView ==
    [status |-> "running", message |-> "none",
     completed_count |-> 0, since |-> <<0, 0, 0>>,
     total_completed |-> 0, total_pages |-> 0, current_page |-> 0,
     page_request |-> <<>>, page_len |-> 0, rows |-> <<>>,
     has_form |-> FALSE, has_previous |-> FALSE, has_next |-> FALSE,
     has_jump |-> FALSE, selected_page |-> 0]

NoEvent == [type |-> "load", desc |-> <<>>, row_id |-> 0, page |-> 0]

\* The state of a run of the script: the store and the connections, the query
\* parameters, the screen so far, the locals of lines 138-171, and whether the run
\* has ended (st.stop() or an exception).
StartRun(t, s, conns, qp) ==
    [db |-> [table |-> t, seq |-> s], conns |-> conns, qp |-> qp,
     view |-> BlankView, pomodoros |-> <<>>, page_data |-> <<>>, halted |-> FALSE,
     calls |-> <<>>]

\* A store call's effect on the run; an exception ends the run.
AfterCall(rs, name, r) ==
    [rs EXCEPT !.db = r.db, !.conns = r.conns,
               !.calls = Append(@, name),
               !.halted = r.raised,
               !.view.status = IF r.raised THEN "error" ELSE @]

\* Lines 105-110.
StartupSection(rs, fault) ==
    With(AfterCall(rs, "init_db", init_db(rs.db, rs.conns, FaultStep(fault, "init_db"))),
         LAMBDA rs1 :
            IF rs1.halted THEN rs1
            ELSE With(AfterCall(rs1, "get_last_description",
                          get_last_description(rs1.db, rs1.conns,
                              FaultStep(fault, "get_last_description"))),
                      LAMBDA rs2 :
                         IF rs2.halted THEN rs2 ELSE [rs2 EXCEPT !.view.has_form = TRUE]))

\* The add form testing desc_input instead of desc_input.strip().
FormSection_unstripped(rs, event, fault, now) ==
    IF rs.halted \/ event.type # "submit" THEN rs
    ELSE IF event.desc # <<>>
         THEN With(AfterCall(rs, "add_pomodoro",
                       add_pomodoro(rs.db, rs.conns, FaultStep(fault, "add_pomodoro"),
                                    event.desc, now)),
                   LAMBDA rs1 :
                      IF rs1.halted THEN rs1
                      ELSE [rs1 EXCEPT !.view.message = "success",
                                       !.qp = SetParam(rs.qp, "updated", UpdatedMarker(now))])
         ELSE [rs EXCEPT !.view.message = "error"]

\* Lines 111-123: the add form.
FormSection(rs, event, fault, now) ==
    IF rs.halted \/ event.type # "submit" THEN rs
    ELSE IF PyStrip(event.desc) # <<>>
         THEN With(AfterCall(rs, "add_pomodoro",
                       add_pomodoro(rs.db, rs.conns, FaultStep(fault, "add_pomodoro"),
                                    event.desc, now)),
                   LAMBDA rs1 :
                      IF rs1.halted THEN rs1
                      ELSE [rs1 EXCEPT !.view.message = "success",
                                       !.qp = SetParam(rs.qp, "updated", UpdatedMarker(now))])
         ELSE [rs EXCEPT !.view.message = "error"]

\* Lines 132-134: the count of window k, and of the windows after it.
RECURSIVE WindowCounts(_, _, _, _)
WindowCounts(rs, fault, now, k) ==
    IF rs.halted \/ k > Len(Windows) THEN rs
    ELSE With(count_pomodoros_since(rs.db, rs.conns, FaultStep(fault, WindowSites[k]),
                                    Windows[k], now),
              LAMBDA r :
                 With(AfterCall(rs, "count_pomodoros_since", r),
                      LAMBDA rs1 :
                         IF rs1.halted THEN rs1
                         ELSE With([rs1 EXCEPT !.view.since[k] = r.value],
                                   LAMBDA rs2 : WindowCounts(rs2, fault, now, k + 1))))

\* Lines 128-135: the total and the three windows.
StatsSection(rs, fault, now) ==
    IF rs.halted THEN rs
    ELSE With(get_total_pomodoros(rs.db, rs.conns, FaultStep(fault, "get_total_pomodoros")),
              LAMBDA r :
                 With(AfterCall(rs, "get_total_pomodoros", r),
                      LAMBDA rs1 :
                         IF rs1.halted THEN rs1
                         ELSE With([rs1 EXCEPT !.view.completed_count = r.value],
                                   LAMBDA rs2 : WindowCounts(rs2, fault, now, 1))))

\* Lines 138-148: the list, and the stop when it is empty.
ListSection(rs, fault) ==
    IF rs.halted THEN rs
    ELSE With(get_all_pomodoros(rs.db, rs.conns, FaultStep(fault, "get_all_pomodoros")),
              LAMBDA r :
                 With(AfterCall(rs, "get_all_pomodoros", r),
                      LAMBDA rs1 :
                         IF rs1.halted THEN rs1
                         ELSE IF Len(r.value) = 0
                              THEN [rs1 EXCEPT !.halted = TRUE, !.view.status = "empty"]
                              ELSE [rs1 EXCEPT !.pomodoros = r.value,
                                               !.view.total_completed = Len(r.value)]))

\* math.ceil(total / size).
Ceil(total, size) == (total + size - 1) \div size

\* The page of the run without the clamp to total_pages of lines 163-164.
CurrentPage_unclamped_above(qp, total_pages) ==
    IF "page" \notin DOMAIN qp THEN total_pages
    ELSE IF qp["page"] = <<>> THEN total_pages
    ELSE LET parsed == PyInt(<<qp["page"][1]>>)
         IN IF parsed.raised THEN total_pages
            ELSE IF parsed.value < 1 THEN 1
            ELSE parsed.value

\* Lines 155-166: the page the run displays.
CurrentPage(qp, total_pages) ==
    IF "page" \notin DOMAIN qp THEN total_pages
    ELSE IF qp["page"] = <<>> THEN total_pages             \* qp["page"][0]: IndexError
    ELSE LET parsed == PyInt(<<qp["page"][1]>>)              \* int(qp["page"][0])
         IN IF parsed.raised THEN total_pages
            ELSE IF parsed.value < 1 THEN 1
            ELSE IF parsed.value > total_pages THEN total_pages
            ELSE parsed.value

\* df.iloc[start:end]: the elements at 0-based indexes start .. end-1 that exist.
ILoc(rows, start, end) ==
    SubSeq(rows, start + 1, IF end < Len(rows) THEN end ELSE Len(rows))

\* Lines 151-171.
PaginationSection(rs) ==
    IF rs.halted THEN rs
    ELSE LET total_pages == Ceil(rs.view.total_completed, PAGE_SIZE)
             current_page == CurrentPage(rs.qp, total_pages)
             start_index == (current_page - 1) * PAGE_SIZE
             end_index == start_index + PAGE_SIZE
         IN With(ILoc(rs.pomodoros, start_index, end_index),
                 LAMBDA page_data :
                    [rs EXCEPT !.view.total_pages = total_pages,
                               !.view.current_page = current_page,
                               !.view.page_request = IF "page" \in DOMAIN rs.qp
                                                     THEN <<rs.qp["page"]>> ELSE <<>>,
                               !.view.page_len = Len(page_data),
                               !.page_data = page_data])

\* Lines 184-197: the rows, each with its Delete button; a pressed one removes the
\* row, marks the query parameters and stops the run.
TableSection(rs, event, fault, now) ==
    IF rs.halted THEN rs
    ELSE With([k \in 1..Len(rs.page_data) |-> rs.page_data[k].id],
              LAMBDA ids :
                 LET pressed == {k \in 1..Len(ids) :
                                    event.type = "delete" /\ ids[k] = event.row_id}
                 IN IF pressed = {}
                    THEN [rs EXCEPT !.view.rows = ids]
                    ELSE With(CHOOSE j \in pressed : TRUE,
                              LAMBDA k :
                                 With(AfterCall([rs EXCEPT !.view.rows = SubSeq(ids, 1, k)],
                                          "remove_pomodoro",
                                          remove_pomodoro(rs.db, rs.conns,
                                              FaultStep(fault, "remove_pomodoro"), ids[k])),
                                      LAMBDA rs1 :
                                         IF rs1.halted THEN rs1
                                         ELSE [rs1 EXCEPT
                                                 !.qp = SetParam(rs.qp, "updated",
                                                                 UpdatedMarker(now)),
                                                 !.halted = TRUE,
                                                 !.view.status = "deleted"])))

\* The value st.selectbox returns: the value its widget holds when it is the widget
\* of the last run (same label, options and index), the option at `index` otherwise.
SelectboxValue(last, event, total_pages, current_page) ==
    IF last.has_jump /\ last.total_pages = total_pages /\ last.current_page = current_page
    THEN IF event.type = "jump" THEN event.page ELSE last.selected_page
    ELSE current_page

\* Lines 200-226: Previous, the jump selectbox, Next.
ControlsSection(rs, last, event) ==
    IF rs.halted THEN rs
    ELSE LET current_page == rs.view.current_page
             total_pages == rs.view.total_pages
             has_previous == current_page > 1
             has_next == current_page < total_pages
             qp1 == IF has_previous /\ event.type = "previous"
                    THEN SetParam(rs.qp, "page", PyStr(current_page - 1)) ELSE rs.qp
             selected_page == SelectboxValue(last, event, total_pages, current_page)
             qp2 == IF selected_page # current_page
                    THEN SetParam(qp1, "page", PyStr(selected_page)) ELSE qp1
             qp3 == IF has_next /\ event.type = "next"
                    THEN SetParam(qp2, "page", PyStr(current_page + 1)) ELSE qp2
         IN [rs EXCEPT !.qp = qp3,
                       !.view.has_previous = has_previous,
                       !.view.has_next = has_next,
                       !.view.has_jump = TRUE,
                       !.view.selected_page = selected_page,
                       !.view.status = "done"]

\* One run of app.py, top to bottom, for the widget event that triggered it; the
\* locals of the run are dropped at its end.
Script(t, s, conns, qp, last, event, fault, now) ==
    With(StartupSection(StartRun(t, s, conns, qp), fault), LAMBDA rs1 :
    With(FormSection(rs1, event, fault, now), LAMBDA rs2 :
    With(StatsSection(rs2, fault, now), LAMBDA rs3 :
    With(ListSection(rs3, fault), LAMBDA rs4 :
    With(PaginationSection(rs4), LAMBDA rs5 :
    With(TableSection(rs5, event, fault, now), LAMBDA rs6 :
    With(ControlsSection(rs6, last, event), LAMBDA rs7 :
         [db |-> rs7.db, conns |-> rs7.conns, qp |-> rs7.qp, view |-> rs7.view,
          calls |-> rs7.calls])))))))

\* ------------------------------------------------------- the initial states

\* The ages, in days, of the rows the table holds when the session starts: the oldest
\* quarter first.
InitAges == <<400, 100, 20, 3>>

InitAge(i, n) ==
    IF 4 * i <= n THEN InitAges[1]
    ELSE IF 2 * i <= n THEN InitAges[2]
    ELSE IF 4 * i <= 3 * n THEN InitAges[3]
    ELSE InitAges[4]

\* A table of n rows, ids 1..n, left by earlier sessions.
InitTable(n) ==
    [i \in 1..n |-> [id |-> i, description |-> <<"a">>, timestamp |-> 0 - InitAge(i, n)]]

\* The sizes of the table a session starts from: empty, and one row on a second page.
InitCounts == {0, PAGE_SIZE + 1}

\* A table with one row on a tenth page, the first page number of two digits.
LargeCounts == {9 * PAGE_SIZE + 1}

EmptyParams == [k \in {} |-> <<>>]

\* The values of ?page= a session is opened with.
InitPages ==
    {<<>>, <<"0">>, <<"2">>, <<"1", "2">>, <<"9", "9">>, <<"-", "1">>, <<"a">>, <<"1", "a">>}

InitParams == {EmptyParams} \cup {SetParam(EmptyParams, "page", p) : p \in InitPages}

\* The descriptions typed into the form.
DescInputs == {<<>>, <<" ", " ">>, <<" ", "b">>}

IdleSession ==
    [pc |-> 0, completed_count |-> 0, since |-> <<0, 0, 0>>, total_completed |-> 0,
     disturbed |-> FALSE]

InitHist(n) ==
    [last |-> "none", adds |-> 0, deletes |-> 0, ticks |-> 0,
     store_calls |-> 0, removes_hit |-> 0, max_issued |-> n]

InitWith(counts, params) ==
    /\ \E n \in counts :
          /\ table = InitTable(n)
          /\ seq = n
          /\ hist = InitHist(n)
    /\ clock = 0
    /\ open_conns = 0
    /\ query_params \in params
    /\ view = BlankView
    /\ session = IdleSession

Init == InitWith(InitCounts, InitParams)

\* ----------------------------------------------------------- interactions

\* The statements that can fail with a storage error, by the call they are in.
FaultPoints ==
    {[site |-> x, step |-> "execute"] :
        x \in {"init_db", "get_last_description", "add_pomodoro", "get_total_pomodoros",
               "get_all_pomodoros", "remove_pomodoro"}
              \cup {WindowSites[k] : k \in 1..Len(WindowSites)}}
    \cup {[site |-> x, step |-> "commit"] : x \in {"init_db", "add_pomodoro", "remove_pomodoro"}}

Max(a, b) == IF a > b THEN a ELSE b

\* The script reruns for `event`; a page load starts with fresh widgets.
Run(event, fault) ==
    \E rs \in {Script(table, seq, open_conns, query_params,
                        IF event.type = "load" THEN BlankView ELSE view,
                        event, fault, clock)} :
    LET rows_before == Len(table)
        rows_after == Len(rs.db.table)
    IN /\ table' = rs.db.table
       /\ seq' = rs.db.seq
       /\ open_conns' = rs.conns
       /\ query_params' = rs.qp
       /\ view' = rs.view
       /\ hist' = [hist EXCEPT !.last = event.type,
                               !.adds = IF rows_after > rows_before THEN @ + 1 ELSE @,
                               !.deletes = IF rows_after < rows_before THEN @ + 1 ELSE @,
                               !.max_issued = Max(@, rs.db.seq)]
       /\ UNCHANGED <<clock, session>>

\* The page is opened or reloaded in the browser.
Load(fault) == Run(NoEvent, fault)

\* "Add Pomodoro" is pressed with desc_input in the text field.
SubmitAdd(desc_input, fault) ==
    /\ view.has_form
    /\ hist.adds < MaxAdds
    /\ Run([NoEvent EXCEPT !.type = "submit", !.desc = desc_input], fault)

\* The rows of the screen whose Delete button the user presses: the first and the last.
DeleteChoices == IF view.rows = <<>> THEN {} ELSE {view.rows[1], view.rows[Len(view.rows)]}

\* The Delete button of row row_id is pressed.
ClickDelete(row_id, fault) ==
    /\ hist.deletes < MaxDeletes
    /\ row_id \in DeleteChoices
    /\ Run([NoEvent EXCEPT !.type = "delete", !.row_id = row_id], fault)

ClickPrevious(fault) ==
    /\ view.has_previous
    /\ Run([NoEvent EXCEPT !.type = "previous"], fault)

ClickNext(fault) ==
    /\ view.has_next
    /\ Run([NoEvent EXCEPT !.type = "next"], fault)

\* Page q is chosen in the selectbox.
SelectPage(q, fault) ==
    /\ view.has_jump
    /\ q \in 1..view.total_pages
    /\ q # view.selected_page
    /\ Run([NoEvent EXCEPT !.type = "jump", !.page = q], fault)

\* Days pass between two interactions.
TickDays == {8}

Tick ==
    /\ hist.ticks < MaxTicks
    /\ \E d \in TickDays : clock' = clock + d
    /\ hist' = [hist EXCEPT !.ticks = @ + 1]
    /\ UNCHANGED <<table, seq, open_conns, query_params, view, session>>

\* What the user can do with the screen, the store failing as `fault` says.
UserAction(fault) ==
    \/ Load(fault)
    \/ \E d \in DescInputs : SubmitAdd(d, fault)
    \/ \E id \in DeleteChoices : ClickDelete(id, fault)
    \/ ClickPrevious(fault)
    \/ ClickNext(fault)
    \/ \E q \in 1..(view.total_pages) : SelectPage(q, fault)

\* A session in which no statement fails.
Next == UserAction(NoFault) \/ Tick

Spec == Init /\ [][Next]_vars

\* ------------------------------------------------- navigation on ten pages

NavInit == InitWith(LargeCounts, InitParams)

\* The user only navigates.
NavNext ==
    \/ Load(NoFault)
    \/ ClickPrevious(NoFault)
    \/ ClickNext(NoFault)
    \/ \E q \in 1..(view.total_pages) : SelectPage(q, NoFault)

NavSpec == NavInit /\ [][NavNext]_vars

\* ------------------------------------------------- statements that fail

\* The statements that can fail now: none once MaxFaults connections are left open.
Faults == {NoFault} \cup (IF open_conns < MaxFaults THEN FaultPoints ELSE {})

FaultInit == InitWith(InitCounts, {EmptyParams})

FaultNext == \E fault \in Faults : UserAction(fault)

FaultSpec == FaultInit /\ [][FaultNext]_vars

\* ------------------------------------------- the store, and a second session

\* The ids a caller passes to remove_pomodoro, issued or not.
RemoveIds == 1..MaxId

\* The effect of a store call that returns.
StoreCall(r) ==
    /\ ~r.raised
    /\ table' = r.db.table
    /\ seq' = r.db.seq
    /\ open_conns' = r.conns

\* Whether the second session is between the first and the last read of its render.
MidRender == session.pc \in 1..(Len(Windows) + 1)

\* add_pomodoro(description) is called.
StoreAdd(description) ==
    /\ hist.store_calls < MaxCalls
    /\ StoreCall(add_pomodoro([table |-> table, seq |-> seq], open_conns, "none",
                              description, clock))
    /\ hist' = [hist EXCEPT !.store_calls = @ + 1, !.adds = @ + 1,
                            !.max_issued = Max(@, seq')]
    /\ session' = [session EXCEPT !.disturbed = @ \/ MidRender]
    /\ UNCHANGED <<clock, query_params, view>>

\* remove_pomodoro(pomo_id) is called.
StoreRemove(pomo_id) ==
    /\ hist.store_calls < MaxCalls
    /\ StoreCall(remove_pomodoro([table |-> table, seq |-> seq], open_conns, "none", pomo_id))
    /\ hist' = [hist EXCEPT !.store_calls = @ + 1,
                            !.removes_hit = IF \E k \in 1..Len(table) : table[k].id = pomo_id
                                            THEN @ + 1 ELSE @]
    /\ session' = [session EXCEPT !.disturbed = @ \/ MidRender]
    /\ UNCHANGED <<clock, query_params, view>>

\* Line 128 in the second session: a render starts and reads the total.
ReadTotal ==
    /\ session.pc \in {0, Len(Windows) + 2}
    /\ session' = [IdleSession EXCEPT
                       !.pc = 1,
                       !.completed_count =
                           get_total_pomodoros([table |-> table, seq |-> seq],
                                               open_conns, "none").value]
    /\ UNCHANGED <<table, seq, clock, open_conns, query_params, view, hist>>

\* Lines 132-134 in the second session: the next window is counted.
ReadWindow ==
    /\ session.pc \in 1..Len(Windows)
    /\ session' = [session EXCEPT
                       !.pc = @ + 1,
                       !.since[session.pc] =
                           count_pomodoros_since([table |-> table, seq |-> seq], open_conns,
                                                 "none", Windows[session.pc], clock).value]
    /\ UNCHANGED <<table, seq, clock, open_conns, query_params, view, hist>>

\* Lines 138-144 in the second session: the list is read and the render is complete.
ReadList ==
    /\ session.pc = Len(Windows) + 1
    /\ session' = [session EXCEPT
                       !.pc = @ + 1,
                       !.total_completed =
                           Len(get_all_pomodoros([table |-> table, seq |-> seq],
                                                 open_conns, "none").value)]
    /\ UNCHANGED <<table, seq, clock, open_conns, query_params, view, hist>>

\* The render of the second session is complete.
Rendered == session.pc = Len(Windows) + 2

StoreInit == InitWith({0}, {EmptyParams})

StoreNext ==
    \/ \E d \in DescInputs : PyStrip(d) # <<>> /\ StoreAdd(d)
    \/ \E id \in RemoveIds : StoreRemove(id)
    \/ ReadTotal
    \/ ReadWindow
    \/ ReadList
    \/ Tick

StoreSpec == StoreInit /\ [][StoreNext]_vars

\* ------------------------------------------------------------------ claims

\* list_all(): what get_all_pomodoros returns now.
Listed == get_all_pomodoros([table |-> table, seq |-> seq], open_conns, "none").value

\* count(): what get_total_pomodoros returns now.
Count == get_total_pomodoros([table |-> table, seq |-> seq], open_conns, "none").value

\* Whether a row of the table has this id.
Present(id) == \E k \in 1..Len(table) : table[k].id = id

\* C1. Starting from an empty store, count() is the number of adds minus the number of
\* removes whose id was present when called, and a remove of an id that is not present
\* (never issued, or already removed) leaves count() and list_all() as they were.
C1_CountIsAddsMinusRemoves ==
    /\ Count = hist.adds - hist.removes_hit
    /\ [][/\ Count' = hist'.adds - hist'.removes_hit
          /\ \A id \in RemoveIds :
                (StoreRemove(id) /\ ~Present(id)) => (Count' = Count /\ Listed' = Listed)]_vars

\* A remove of an absent id has been called, after adds and a remove that hit.
C1_Witness ==
    /\ hist.adds >= 2
    /\ hist.removes_hit >= 1
    /\ hist.store_calls > hist.adds + hist.removes_hit
    /\ Count = hist.adds - hist.removes_hit

\* Whether the run that left view v had records and reached the pagination.
Paginated(v) == v.status \in {"done", "deleted"}

\* The page the clamping policy gives for a requested page p.
Clamp(p, total_pages) == IF p < 1 THEN 1 ELSE IF p > total_pages THEN total_pages ELSE p

\* C2. In every render with total_pages >= 1 whose page parameter carries an integer p
\* (negative and multi-digit ones included), the page displayed is 1 when p < 1,
\* total_pages when p > total_pages, and p otherwise.
C2_IntegerPageIsClamped ==
    (Paginated(view) /\ view.page_request # <<>> /\ ~PyInt(view.page_request[1]).raised)
        => view.current_page = Clamp(PyInt(view.page_request[1]).value, view.total_pages)

\* C3. Every page parameter that is not a number, those that begin with a digit and the
\* empty one included, displays the last page, as an absent parameter does, and shows
\* no error.
C3_MalformedPageIsLastPage ==
    (view.has_form /\ view.status # "empty"
        /\ view.page_request # <<>> /\ PyInt(view.page_request[1]).raised)
        => (view.status # "error" /\ view.current_page = view.total_pages)

\* Whether view v displays a page that exists and has rows.
PageInRange(v) ==
    Paginated(v) => (1 <= v.current_page /\ v.current_page <= v.total_pages /\ v.page_len >= 1)

\* Whether view v is of the run that deleted the only row of its last page, not page
\* 1, with the page parameter given.
LastPageEmptied(v) ==
    /\ v.status = "deleted"
    /\ v.page_request # <<>>
    /\ v.total_pages > 1
    /\ v.current_page = v.total_pages
    /\ v.page_len = 1

\* C4. Every render that has a record displays a page p with 1 <= p <= total_pages whose
\* slice is not empty; and the render after the only row of the last page (not page 1)
\* was deleted, with the page parameter given, displays the last page there is then.
C4_PageStaysInRange ==
    /\ PageInRange(view)
    /\ [][/\ PageInRange(view')
          /\ (LastPageEmptied(view) /\ clock' = clock /\ Paginated(view'))
                => /\ view'.total_pages = Ceil(view'.total_completed, PAGE_SIZE)
                   /\ view'.current_page = view'.total_pages]_vars

\* The render after the only row of page 2 was deleted with ?page=2: page 1 of 1.
C4_Witness ==
    /\ view.status = "done"
    /\ hist.deletes = 1
    /\ hist.adds = 0
    /\ view.page_request = <<(<<"2">>)>>
    /\ view.total_completed = PAGE_SIZE
    /\ view.total_pages = 1
    /\ view.current_page = 1

\* Whether view v shows the total, the window counts and the rows of table t at `now`.
ShowsStore(v, t, now) ==
    /\ v.completed_count = Len(t)
    /\ \A k \in 1..Len(Windows) :
          v.since[k] = Len(SelectSeq(t, LAMBDA r : r.timestamp >= now - Windows[k]))
    /\ \A k \in 1..Len(v.rows) : \E j \in 1..Len(t) : t[j].id = v.rows[k]
    /\ v.total_completed = Len(t)

\* C5. An interaction that adds or deletes a row ends with a render whose total, window
\* counts and rows are those of the store after the mutation.
C5_MutationIsFollowedByReload ==
    [][(clock' = clock /\ Len(table') # Len(table)) => ShowsStore(view', table', clock')]_vars

\* C6. A 'next' taken on page p < total_pages makes the following render display p + 1,
\* a 'previous' taken on p > 1 makes it display p - 1, a jump to q in 1..total_pages
\* makes it display q; 'previous' on page 1 and 'next' on the last page leave the page
\* parameter as it was.
C6_NavigationMoves ==
    [][(clock' = clock /\ view.status = "done" /\ Paginated(view'))
         => /\ (hist.last = "next" /\ view.has_next)
                  => view'.current_page = view.current_page + 1
            /\ (hist.last = "previous" /\ view.has_previous)
                  => view'.current_page = view.current_page - 1
            /\ (hist.last = "jump" /\ view.selected_page \in 1..view.total_pages)
                  => view'.current_page = view.selected_page
            /\ (hist'.last = "previous" /\ view'.status = "done" /\ view'.current_page = 1)
                  => query_params' = query_params
            /\ (hist'.last = "next" /\ view'.status = "done"
                    /\ view'.current_page = view'.total_pages)
                  => query_params' = query_params]_vars

\* Whether the rows are in strictly ascending order of id.
StrictlyAscending(rows) == \A k \in 1..(Len(rows) - 1) : rows[k].id < rows[k + 1].id

\* C7. An add followed by list_all() gives the new record last, with an id greater than
\* every id issued before, those of deleted rows included; list_all() is always in
\* strictly ascending order of id.
C7_NewRecordIsLastWithFreshId ==
    /\ StrictlyAscending(Listed)
    /\ [][/\ StrictlyAscending(Listed')
          /\ \A d \in DescInputs :
                StoreAdd(d) =>
                    /\ Listed' # <<>>
                    /\ Listed'[Len(Listed')].description = d
                    /\ Listed'[Len(Listed')].timestamp = clock
                    /\ Listed'[Len(Listed')].id > hist.max_issued
                    /\ \A k \in 1..Len(Listed) : Listed'[k] = Listed[k]]_vars

\* A record was added after the record with the greatest id was removed.
C7_Witness ==
    /\ hist.adds = 3
    /\ hist.removes_hit = 1
    /\ Len(table) = 2
    /\ Listed[1].id = 1
    /\ Listed[2].id = 3

\* Whether a description has no character other than whitespace.
IsBlank(d) == \A i \in 1..Len(d) : d[i] = " "

\* C8. Submitting an empty or whitespace-only description shows an error and leaves the
\* table, the sequence and the query parameters as they were; submitting any other
\* description inserts exactly one row, with that description.
C8_BlankIsRejected ==
    [][\A d \in DescInputs :
          (hist'.last = "submit" /\ SubmitAdd(d, NoFault)) =>
              IF IsBlank(d)
              THEN /\ view'.message = "error"
                   /\ table' = table
                   /\ seq' = seq
                   /\ query_params' = query_params
              ELSE /\ view'.message = "success"
                   /\ seq' = seq + 1
                   /\ table' = Append(table, [id |-> seq', description |-> d,
                                              timestamp |-> clock])]_vars

\* A whitespace-only description was rejected after a row was deleted.
C8_Witness ==
    /\ view.message = "error"
    /\ hist.last = "submit"
    /\ hist.adds = 0
    /\ hist.deletes = 1
    /\ Len(table) = PAGE_SIZE

\* C9. Every store function closes the connection it opened, whether it returns or a
\* statement or commit fails: between two runs no connection is open.
C9_ConnectionsAreReleased == open_conns = 0

\* Whether the four numbers of the render of the second session agree.
Consistent(r) ==
    /\ r.since[1] <= r.since[2]
    /\ r.since[2] <= r.since[3]
    /\ r.since[3] <= r.completed_count
    /\ r.completed_count = r.total_completed

\* C10, as claimed. The four numbers of a render agree, even when another session adds
\* or deletes rows between its reads.
C10_ConsistentUnderWrites == Rendered => Consistent(session)

\* C10, amended. The four numbers of a render agree when no row is added or deleted
\* between its reads.
C10_ConsistentWhenUndisturbed == (Rendered /\ ~session.disturbed) => Consistent(session)

\* An undisturbed render of a table with a row older than 7 days and a newer one.
C10_Witness ==
    /\ Rendered
    /\ ~session.disturbed
    /\ session.since[1] >= 1
    /\ session.since[1] < session.since[2]
    /\ session.completed_count = session.total_completed

====
